---------------------------- MODULE Spec2Model ----------------------------
(***************************************************************************)
(* Model of udmurtwrapper.py: the corpus text search (UdmurtCorpus) with   *)
(* its pagination loop, and the dictionary word lookup (UdmurtDictionary)  *)
(* with its lru_cache, lemma fallback and tilde replacement.  The upstream *)
(* HTTP service and the morphological analyzer are external: every answer  *)
(* they can give is a nondeterministic input of the Response actions.      *)
(***************************************************************************)
EXTENDS Integers, Sequences, FiniteSets, TLC

\* ------------------------------------------------------------ bounds
\* Largest count a caller passes explicitly (counts range over -1..MaxCount).
MaxCount == 2
\* Largest totalElements the upstream reports.
MaxTotal == 2
\* Largest number of upstream requests followed in one text search.
MaxRequests == 3

\* ------------------------------------------------------------ helpers
Min(a, b) == IF a < b THEN a ELSE b
Max(a, b) == IF a > b THEN a ELSE b

\* Python's None in a payload field.
None == "None"

\* dict.get(name, default) on keyword arguments / dict.update on params.
KwGet(kw, name, default) == IF name \in DOMAIN kw THEN kw[name] ELSE default

\* Python's s[:c]: the first c items for c >= 0, all but the last -c for c < 0.
PySliceNoCut(s, c) == s
PySlice(s, c) ==
    IF c >= 0 THEN SubSeq(s, 1, Min(c, Len(s)))
              ELSE SubSeq(s, 1, Max(0, Len(s) + c))

\* ------------------------------------------------------------ corpus: inputs
\* The query text of the search.
QueryText == "q"

\* Text bodies the upstream can put in a content item.
Bodies == {"t1", "t2"}

\* A content item of a page; the code reads only its body.
Items == [body : Bodies]

\* The content lists of a page: at most two items, without a repeated body.
Contents ==
    {<<>>} \cup {<<i>> : i \in Items}
           \cup {<<i, j>> : <<i, j>> \in {p \in Items \X Items : p[1] # p[2]}}

\* The pages (JSON objects) the upstream can answer with.  numberOfElements is
\* the size of the page's content; totalElements (0, 1 or the largest value)
\* and last and empty are whatever the upstream says.
Pages ==
    {p \in [totalElements : {0, 1, MaxTotal}, last : BOOLEAN,
            numberOfElements : 0..2, empty : BOOLEAN, content : Contents] :
        p.numberOfElements = Len(p.content)}

\* HTTP status codes of an answer.
Statuses == {200, 500}

\* The body of a non-200 answer is not JSON the code reads.
ErrorPage ==
    [totalElements |-> 0, last |-> FALSE, numberOfElements |-> 0,
     empty |-> FALSE, content |-> <<>>]

\* UdmurtCorpus.DEFAULT_PARAMS.
DEFAULT_PARAMS ==
    [count |-> 10, all_texts |-> FALSE, return_full_json |-> FALSE,
     full_compare |-> FALSE, full_text_mode |-> FALSE, page |-> 1,
     per_page |-> 10, rows_count |-> 0]

\* params of a caller that passes none (None or {}).
NoParams == [k \in {} |-> 0]

\* params dictionaries a caller passes.
ParamSpace ==
    [count : (-1)..MaxCount, all_texts : BOOLEAN, return_full_json : BOOLEAN,
     full_text_mode : BOOLEAN]

\* params dictionaries of a caller that sets page and per_page.
PagingParams == [page : {0, 3}, per_page : {1, 50}, count : {MaxCount}]

\* search_params = DEFAULT_PARAMS.copy(); search_params.update(params)
MergeParams(p) ==
    [k \in DOMAIN DEFAULT_PARAMS \cup DOMAIN p |->
        IF k \in DOMAIN p THEN p[k] ELSE DEFAULT_PARAMS[k]]

\* ------------------------------------------------------------ corpus: code
\* UdmurtCorpus._build_search_payload(text, **kwargs); the fields that are the
\* same literal in every request (title, gr, gloss, type, ...) are left out.
BuildSearchPayload(text, kwargs) ==
    LET ftm == KwGet(kwargs, "full_text_mode", FALSE) IN
    [searchMode  |-> IF ftm THEN 1 ELSE 0,
     word        |-> IF ftm THEN None ELSE text,
     page        |-> KwGet(kwargs, "page", 1),
     perPage     |-> KwGet(kwargs, "per_page", 10),
     fullcompare |-> KwGet(kwargs, "full_compare", FALSE),
     text        |-> IF ftm THEN text ELSE None,
     rows        |-> KwGet(kwargs, "rows_count", 0)]

\* The keyword arguments of the first request of _fetch_texts.
FirstKwargsWithPaging(params) ==
    [full_compare |-> params.full_compare,
     full_text_mode |-> params.full_text_mode,
     page |-> params.page, per_page |-> params.per_page]
FirstKwargs(params) ==
    [full_compare |-> params.full_compare,
     full_text_mode |-> params.full_text_mode]

\* The keyword arguments of a request of the while loop of _fetch_texts.
LoopKwargsNoRows(params, page, rows) ==
    [full_compare |-> params.full_compare,
     full_text_mode |-> params.full_text_mode, page |-> page]
LoopKwargsNoMode(params, page, rows) ==
    [full_compare |-> params.full_compare,
     page |-> page, rows_count |-> rows]
LoopKwargs(params, page, rows) ==
    [full_compare |-> params.full_compare,
     full_text_mode |-> params.full_text_mode,
     page |-> page, rows_count |-> rows]

\* UdmurtCorpus.make_request: raises APIError unless the status is 200.
MakeRequestNeverRaises(status) == FALSE
MakeRequestRaises(status) == status # 200

\* [item['body'] for page in results for item in page['content']]
RECURSIVE PageBodies(_)
PageBodies(content) ==
    IF content = <<>> THEN <<>>
    ELSE <<Head(content).body>> \o PageBodies(Tail(content))

RECURSIVE FlattenBackwards(_)
FlattenBackwards(res) ==
    IF res = <<>> THEN <<>>
    ELSE FlattenBackwards(Tail(res)) \o PageBodies(Head(res).content)

RECURSIVE Flatten(_)
Flatten(res) ==
    IF res = <<>> THEN <<>>
    ELSE PageBodies(Head(res).content) \o Flatten(Tail(res))

\* The count _fetch_texts returns next to the pages.
FetchCountIgnoresAll(params, first) == params.count
FetchCountAllEvenWhenLast(params, first) ==
    IF params.all_texts THEN first.totalElements ELSE params.count
FetchCount(params, first) ==
    IF ~first.empty /\ ~first.last /\ params.all_texts
        THEN first.totalElements ELSE params.count

\* The pages _fetch_texts holds after the first response.
FirstResultsKeepEmpty(first) == <<first>>
FirstResults(first) == IF first.empty THEN <<>> ELSE <<first>>

\* _fetch_texts goes on to the while loop after the first response.
EntersLoop(first) == ~first.empty /\ ~first.last

\* The condition of the while loop.
LoopConditionOffByOne(curr, cnt) == curr <= cnt
LoopCondition(curr, cnt) == curr < cnt

\* The tail of get_texts, after _fetch_texts returned (res, new_count).
GetTextsOutcome(res, new_count, params) ==
    IF Len(res) = 0 THEN
        [kind |-> "TextsNotFoundError", texts |-> <<>>, pages |-> <<>>]
    ELSE IF params.return_full_json THEN
        [kind |-> "pages", texts |-> <<>>, pages |-> res]
    ELSE
        [kind |-> "texts", texts |-> PySlice(Flatten(res), new_count),
         pages |-> <<>>]

\* ------------------------------------------------------------ dictionary: inputs
\* Largest number of items in a dictionary response.
MaxItems == 2
\* Largest number of lookups followed on one client instance (cache runs).
MaxLookups == 2

\* UdmurtDictionary.LANGUAGES.
LANGUAGES ==
    [udm |-> [id |-> 1, code |-> "udm"], rus |-> [id |-> 2, code |-> "rus"]]

\* Language codes a caller passes; "eng" and "" are not in LANGUAGES.
Langs == {"udm", "rus", "eng", ""}

\* Words a caller looks up.
Words == {"w1", "w2"}

\* Lemmas the analyzer answers with; '' when it cannot analyze the word.
Lemmas == {"", "lem"}

\* Strings are sequences of symbols.  The characters of a text:
Chars == {"a", "~"}
\* An HTML tag inside a body.
Tags == {"<b>"}
Tokens == Chars \cup Tags

\* The body values (HTML) of a dictionary item: up to two tokens.
HtmlBodies ==
    {<<>>} \cup {<<t>> : t \in Tokens} \cup {<<t, u>> : <<t, u>> \in Tokens \X Tokens}

\* The srcWord values of a dictionary item.
SrcWords == {<<"a">>, <<"~">>}

DictItems == [body : HtmlBodies, srcWord : SrcWords]

\* Sequences over S with at most n elements.
RECURSIVE SeqsUpTo(_, _)
SeqsUpTo(S, n) ==
    IF n = 0 THEN {<<>>}
    ELSE LET shorter == SeqsUpTo(S, n - 1) IN
         shorter \cup {Append(q, x) : <<q, x>> \in
                          {r \in shorter : Len(r) = n - 1} \X S}

\* The JSON arrays the dictionary endpoint can answer with.
DictResponses == SeqsUpTo(DictItems, MaxItems)

\* The argument tuples of get_word.
ArgSpace ==
    [word : Words, lang : Langs, replace_tilde : BOOLEAN,
     return_full_json : BOOLEAN, lemmatize_if_not_found : BOOLEAN]

\* The UdmurtDictionary instances (self) whose get_word is called.
Clients == {"A", "B"}

\* The parameters of get_word after self, and the defaults of its signature.
Names ==
    <<"word", "lang", "replace_tilde", "return_full_json",
      "lemmatize_if_not_found">>
Defaults ==
    [lang |-> "udm", replace_tilde |-> FALSE, return_full_json |-> FALSE,
     lemmatize_if_not_found |-> FALSE]

\* A call as written: self, the positional arguments given, and the keyword
\* arguments given, in the order given.
\* search_word's call: all five arguments by position.
Positional(self, a) ==
    [self |-> self,
     args |-> <<a.word, a.lang, a.replace_tilde, a.return_full_json,
                a.lemmatize_if_not_found>>,
     kwds |-> <<>>]

\* A direct call that leaves out the trailing arguments equal to the defaults.
Short(self, a) ==
    LET full == Positional(self, a).args
        n == CHOOSE i \in 1..5 :
                 /\ \A j \in (i + 1)..5 : full[j] = Defaults[Names[j]]
                 /\ i > 1 => full[i] # Defaults[Names[i]]
    IN [self |-> self, args |-> SubSeq(full, 1, n), kwds |-> <<>>]

\* A direct call with every argument by keyword.
Keywords(self, a) ==
    [self |-> self, args |-> <<>>,
     kwds |-> [i \in 1..5 |-> <<Names[i], a[Names[i]]>>]]

\* Python's binding of a call to the parameters of get_word.
HasKw(kwds, name) == \E i \in 1..Len(kwds) : kwds[i][1] = name
KwValue(kwds, name) == kwds[CHOOSE i \in 1..Len(kwds) : kwds[i][1] = name][2]
ArgValue(call, i) ==
    IF i <= Len(call.args) THEN call.args[i]
    ELSE IF HasKw(call.kwds, Names[i]) THEN KwValue(call.kwds, Names[i])
    ELSE Defaults[Names[i]]
BindArgs(call) ==
    [word |-> ArgValue(call, 1), lang |-> ArgValue(call, 2),
     replace_tilde |-> ArgValue(call, 3), return_full_json |-> ArgValue(call, 4),
     lemmatize_if_not_found |-> ArgValue(call, 5)]

\* One lookup through search_word on one client.
WordCalls == {Positional("A", a) : a \in ArgSpace}

\* Smaller inputs for runs of several lookups.
CacheArgSpace ==
    [word : Words, lang : {"udm", "eng"}, replace_tilde : {FALSE},
     return_full_json : {FALSE}, lemmatize_if_not_found : BOOLEAN]
CacheItems == [body : {<<"a">>, <<"~">>}, srcWord : {<<"a">>}]
CacheResponses == {<<>>} \cup {<<i>> : i \in CacheItems}

\* The calls of runs of several lookups: through search_word on either
\* client, or directly on the first.
CacheCalls ==
    {Positional(c, a) : <<c, a>> \in Clients \X CacheArgSpace}
        \cup UNION {{Short("A", a), Keywords("A", a)} : a \in CacheArgSpace}

\* ------------------------------------------------------------ dictionary: code
\* UdmurtDictionary.make_request: raises APIError unless the status is 200.
DictMakeRequestRaises(status) == status # 200

\* self.LANGUAGES[lang] raises KeyError, turned into ValueError.
LanguageSupportedAlways(lang) == TRUE
LanguageSupported(lang) == lang \in DOMAIN LANGUAGES

\* The payload of a dictionary request; id 0 stands for a missing language.
DictPayload(word, lang) ==
    [word |-> word,
     lang |-> [id |-> IF lang \in DOMAIN LANGUAGES THEN LANGUAGES[lang].id ELSE 0]]

\* `not response` of get_word.
IsEmptyResponseNever(response) == FALSE
IsEmptyResponse(response) == Len(response) = 0

\* BeautifulSoup(body, "lxml").text: the text of the body without its tags.
IsText(t) == t \notin Tags
HtmlText(body) == SelectSeq(body, IsText)

\* str.replace('~', src): every '~' of text becomes src, left to right; the
\* inserted text is not scanned again.
RECURSIVE ReplaceTilde(_, _)
ReplaceTilde(text, src) ==
    IF text = <<>> THEN <<>>
    ELSE (IF Head(text) = "~" THEN src ELSE <<Head(text)>>)
             \o ReplaceTilde(Tail(text), src)

\* The body of the for loop of _process_response.
ProcessItemNoReplace(item, replace_tilde) == HtmlText(item.body)
ProcessItem(item, replace_tilde) ==
    IF replace_tilde THEN ReplaceTilde(HtmlText(item.body), item.srcWord)
                     ELSE HtmlText(item.body)

\* UdmurtDictionary._process_response(response, word, replace_tilde).
RECURSIVE ProcessResponseUsesWord(_, _, _)
ProcessResponseUsesWord(response, word, replace_tilde) ==
    IF response = <<>> THEN <<>>
    ELSE <<IF replace_tilde
               THEN ReplaceTilde(HtmlText(Head(response).body), <<word>>)
               ELSE HtmlText(Head(response).body)>>
             \o ProcessResponseUsesWord(Tail(response), word, replace_tilde)

RECURSIVE ProcessResponse(_, _, _)
ProcessResponse(response, word, replace_tilde) ==
    IF response = <<>> THEN <<>>
    ELSE <<ProcessItem(Head(response), replace_tilde)>>
             \o ProcessResponse(Tail(response), word, replace_tilde)

\* What get_word returns for a non-empty response.
GetWordReturnReplacesInJson(response, word, a) ==
    IF a.return_full_json THEN
        [kind |-> "json", strings |-> <<>>,
         json |-> [i \in 1..Len(response) |->
                      [body |-> ProcessItem(response[i], a.replace_tilde),
                       srcWord |-> response[i].srcWord]]]
    ELSE
        [kind |-> "strings",
         strings |-> ProcessResponse(response, word, a.replace_tilde),
         json |-> <<>>]
GetWordReturn(response, word, a) ==
    IF a.return_full_json THEN
        [kind |-> "json", strings |-> <<>>, json |-> response]
    ELSE
        [kind |-> "strings",
         strings |-> ProcessResponse(response, word, a.replace_tilde),
         json |-> <<>>]

WordError(kind) == [kind |-> kind, strings |-> <<>>, json |-> <<>>]

\* functools.lru_cache(maxsize=128) around get_word.  The cache is a sequence
\* of entries from the least to the most recently used.
maxsize == 128

\* The key lru_cache makes of a call: self and the positional arguments as
\* given, then the keyword arguments as given; defaults are not filled in.
CacheKey(call) == <<call.self, call.args, call.kwds>>

CacheIndex(c, key) == {i \in 1..Len(c) : c[i].key = key}
CacheHit(c, key) == CacheIndex(c, key) # {}
CacheValue(c, key) == c[CHOOSE i \in CacheIndex(c, key) : TRUE].value

Without(c, key) ==
    LET Keep(e) == e.key # key IN SelectSeq(c, Keep)

\* A hit moves the entry to the most recently used end.
CacheTouch(c, key) ==
    Append(Without(c, key), [key |-> key, value |-> CacheValue(c, key)])

\* A normal return is stored; a full cache drops its least recently used entry.
CacheStoreNothing(c, key, value) == c
CacheStore(c, key, value) ==
    LET room == IF Len(c) >= maxsize THEN Tail(c) ELSE c IN
    Append(room, [key |-> key, value |-> value])

\* ------------------------------------------------------------ state
VARIABLES
    pc,              \* where get_texts is: idle, first, loop, done, cut
    params,          \* search_params of get_texts
    requests,        \* the payloads posted so far, in order
    responses,       \* the upstream's answers so far, in order
    results,         \* _fetch_texts: results
    curr_elements,   \* _fetch_texts: curr_elements
    count,           \* _fetch_texts: count
    total_elements,  \* _fetch_texts: total_elements
    curr_page,       \* _fetch_texts: curr_page
    outcome,         \* what get_texts returned or raised
    wpc,             \* where get_word is: idle (no call returned since
                     \* construction or cache_clear), first, second, done
    wcall,           \* the current get_word call as written
    wargs,           \* the arguments of the current get_word call, bound
    wrequests,       \* the payloads the current get_word call posted
    wresponses,      \* the answers the current get_word call received
    new_word,        \* get_word: new_word
    woutcome,        \* what the current get_word call returned or raised
    cache,           \* the lru_cache of get_word, one for all instances
    history,         \* the earlier get_word calls, their outcomes, and whether
                     \* cache_clear ran since
    nlookups         \* number of get_word calls so far

cvars == <<pc, params, requests, responses, results, curr_elements, count,
           total_elements, curr_page, outcome>>
wvars == <<wpc, wcall, wargs, wrequests, wresponses, new_word, woutcome, cache,
           history, nlookups>>
vars == <<cvars, wvars>>
NoOutcome == [kind |-> "none", texts |-> <<>>, pages |-> <<>>]
APIErrorOutcome == [kind |-> "APIError", texts |-> <<>>, pages |-> <<>>]

Init ==
    /\ pc = "idle"
    /\ params = DEFAULT_PARAMS
    /\ requests = <<>>
    /\ responses = <<>>
    /\ results = <<>>
    /\ curr_elements = 0
    /\ count = 0
    /\ total_elements = 0
    /\ curr_page = 1
    /\ outcome = NoOutcome
    /\ wpc = "idle"
    /\ wcall = [self |-> "A", args |-> <<"w1">>, kwds |-> <<>>]
    /\ wargs = BindArgs(wcall)
    /\ wrequests = <<>>
    /\ wresponses = <<>>
    /\ new_word = ""
    /\ woutcome = WordError("none")
    /\ cache = <<>>
    /\ history = {}
    /\ nlookups = 0

\* get_texts up to the first make_request of _fetch_texts.
GetTexts(p) ==
    /\ pc = "idle"
    /\ params' = MergeParams(p)
    /\ requests' = <<BuildSearchPayload(QueryText, FirstKwargs(params'))>>
    /\ pc' = "first"
    /\ UNCHANGED <<responses, results, curr_elements, count, total_elements,
                   curr_page, outcome>>
    /\ UNCHANGED wvars

\* _fetch_texts returns (res, cnt) and get_texts finishes.
Finish(res, cnt) ==
    /\ pc' = "done"
    /\ outcome' = GetTextsOutcome(res, cnt, params)
    /\ UNCHANGED requests

\* The while loop, evaluated with the values held after a response: post the
\* next page or leave the loop.
LoopOrFinish(res, curr, cnt, page, rows) ==
    IF LoopCondition(curr, cnt) THEN
        IF Len(requests) < MaxRequests THEN
            /\ requests' = Append(requests,
                   BuildSearchPayload(QueryText, LoopKwargs(params, page, rows)))
            /\ pc' = "loop"
            /\ UNCHANGED outcome
        ELSE
            /\ pc' = "cut"
            /\ UNCHANGED <<requests, outcome>>
    ELSE Finish(res, cnt)

\* The answer to the first request and the code up to the next request.
FirstResponse(status, page) ==
    /\ pc = "first"
    /\ responses' = Append(responses, [status |-> status, page |-> page])
    /\ IF MakeRequestRaises(status) THEN
           /\ pc' = "done"
           /\ outcome' = APIErrorOutcome
           /\ UNCHANGED <<requests, results, curr_elements, count,
                          total_elements, curr_page>>
       ELSE
           /\ total_elements' = page.totalElements
           /\ curr_elements' = page.numberOfElements
           /\ count' = FetchCount(params, page)
           /\ results' = FirstResults(page)
           /\ IF EntersLoop(page) THEN
                  /\ curr_page' = 2
                  /\ LoopOrFinish(results', curr_elements', count', 2,
                                  total_elements')
              ELSE
                  /\ UNCHANGED curr_page
                  /\ Finish(results', count')
    /\ UNCHANGED params
    /\ UNCHANGED wvars

\* The answer to a request of the while loop and the code up to the next one.
LoopResponse(status, page) ==
    /\ pc = "loop"
    /\ responses' = Append(responses, [status |-> status, page |-> page])
    /\ IF MakeRequestRaises(status) THEN
           /\ pc' = "done"
           /\ outcome' = APIErrorOutcome
           /\ UNCHANGED <<requests, results, curr_elements, curr_page>>
       ELSE
           /\ curr_elements' = curr_elements + page.numberOfElements
           /\ results' = Append(results, page)
           /\ IF page.last THEN
                  /\ UNCHANGED curr_page
                  /\ Finish(results', count)
              ELSE
                  /\ curr_page' = curr_page + 1
                  /\ LoopOrFinish(results', curr_elements', count,
                                  curr_page', total_elements)
    /\ UNCHANGED <<params, count, total_elements>>
    /\ UNCHANGED wvars

\* ------------------------------------------------------------ dictionary: actions
\* get_word returns or raises: a normal return is stored by lru_cache.
WordFinish(call, out) ==
    /\ wpc' = "done"
    /\ woutcome' = out
    /\ cache' = IF out.kind \in {"strings", "json"}
                    THEN CacheStore(cache, CacheKey(call), out) ELSE cache

\* A call of get_word through lru_cache, up to its first make_request.
GetWord(call, limit) ==
    LET a == BindArgs(call) IN
    /\ wpc \in {"idle", "done"}
    /\ nlookups < limit
    /\ nlookups' = nlookups + 1
    /\ history' = IF wpc = "done"
                      THEN history \cup {[call |-> wcall, args |-> wargs,
                                          outcome |-> woutcome,
                                          cleared |-> FALSE]}
                      ELSE history
    /\ wcall' = call
    /\ wargs' = a
    /\ wresponses' = <<>>
    /\ new_word' = ""
    /\ IF CacheHit(cache, CacheKey(call)) THEN
           /\ wrequests' = <<>>
           /\ wpc' = "done"
           /\ woutcome' = CacheValue(cache, CacheKey(call))
           /\ cache' = CacheTouch(cache, CacheKey(call))
       ELSE IF ~LanguageSupported(a.lang) THEN
           /\ wrequests' = <<>>
           /\ WordFinish(call, WordError("ValueError"))
       ELSE
           /\ wrequests' = <<DictPayload(a.word, a.lang)>>
           /\ wpc' = "first"
           /\ UNCHANGED <<woutcome, cache>>
    /\ UNCHANGED cvars

\* UdmurtDictionary.get_word.cache_clear(), between two calls: every entry
\* of the cache is dropped.
CacheClear ==
    /\ wpc \in {"idle", "done"}
    /\ cache' = <<>>
    /\ history' = {[h EXCEPT !.cleared = TRUE] :
                       h \in history \cup
                           (IF wpc = "done"
                                THEN {[call |-> wcall, args |-> wargs,
                                       outcome |-> woutcome,
                                       cleared |-> FALSE]}
                                ELSE {})}
    /\ wpc' = "idle"
    /\ UNCHANGED <<wcall, wargs, wrequests, wresponses, new_word, woutcome,
                   nlookups>>
    /\ UNCHANGED cvars

\* The answer to the first dictionary request and the code up to the second
\* request or the end of get_word; lemma is what the analyzer would answer.
WordFirstResponse(status, response, lemma) ==
    /\ wpc = "first"
    /\ wresponses' = Append(wresponses, [status |-> status, json |-> response])
    /\ IF DictMakeRequestRaises(status) THEN
           /\ WordFinish(wcall, WordError("APIError"))
           /\ UNCHANGED <<wrequests, new_word>>
       ELSE IF ~IsEmptyResponse(response) THEN
           /\ WordFinish(wcall, GetWordReturn(response, wargs.word, wargs))
           /\ UNCHANGED <<wrequests, new_word>>
       ELSE IF ~wargs.lemmatize_if_not_found THEN
           /\ WordFinish(wcall, WordError("WordNotFoundError"))
           /\ UNCHANGED <<wrequests, new_word>>
       ELSE
           /\ new_word' = lemma
           /\ IF lemma # "" THEN
                  /\ wrequests' = Append(wrequests, DictPayload(lemma, wargs.lang))
                  /\ wpc' = "second"
                  /\ UNCHANGED <<woutcome, cache>>
              ELSE
                  /\ WordFinish(wcall, WordError("WordNotFoundError"))
                  /\ UNCHANGED wrequests
    /\ UNCHANGED <<wcall, wargs, history, nlookups>>
    /\ UNCHANGED cvars

\* The answer to the request with the lemma and the rest of get_word.
WordSecondResponse(status, response) ==
    /\ wpc = "second"
    /\ wresponses' = Append(wresponses, [status |-> status, json |-> response])
    /\ IF DictMakeRequestRaises(status) THEN
           WordFinish(wcall, WordError("APIError"))
       ELSE IF IsEmptyResponse(response) THEN
           WordFinish(wcall, WordError("WordNotFoundError"))
       ELSE
           WordFinish(wcall, GetWordReturn(response, new_word, wargs))
    /\ UNCHANGED <<wcall, wargs, wrequests, new_word, history, nlookups>>
    /\ UNCHANGED cvars

\* ------------------------------------------------------------ specifications
\* The upstream answers the request that is waiting for its response.
\* One text search against every upstream.
Next ==
    \/ \E p \in ParamSpace : GetTexts(p)
    \/ \E p \in PagingParams : GetTexts(p)
    \/ GetTexts(NoParams)
    \/ pc = "first" /\ \E page \in Pages : FirstResponse(200, page)
    \/ FirstResponse(500, ErrorPage)
    \/ pc = "loop" /\ \E page \in Pages : LoopResponse(200, page)
    \/ LoopResponse(500, ErrorPage)

Spec == Init /\ [][Next]_vars

\* One word lookup on a fresh client against every upstream and analyzer.
NextWord ==
    \/ \E call \in WordCalls : GetWord(call, 1)
    \/ wpc = "first" /\ \E r \in DictResponses, l \in Lemmas :
                            WordFirstResponse(200, r, l)
    \/ WordFirstResponse(500, <<>>, "")
    \/ wpc = "second" /\ \E r \in DictResponses : WordSecondResponse(200, r)
    \/ WordSecondResponse(500, <<>>)

SpecWord == Init /\ [][NextWord]_vars

\* Several word lookups, one after another, on two clients, and cache_clear
\* between them.
NextCache ==
    \/ \E call \in CacheCalls : GetWord(call, MaxLookups)
    \/ CacheClear
    \/ wpc = "first" /\ \E r \in CacheResponses, l \in Lemmas :
                            WordFirstResponse(200, r, l)
    \/ WordFirstResponse(500, <<>>, "")
    \/ wpc = "second" /\ \E r \in CacheResponses : WordSecondResponse(200, r)
    \/ WordSecondResponse(500, <<>>)

SpecCache == Init /\ [][NextCache]_vars

\* One call on a fresh client, a text search or a word lookup.
NextClient ==
    \/ wpc = "idle" /\ Next
    \/ pc = "idle" /\ NextWord

SpecClient == Init /\ [][NextClient]_vars

\* ------------------------------------------------------------ properties
\* What the properties read off a run of a text search.
NumRequests == Len(requests)
NumResponses == Len(responses)
Answered(i) == responses[i].status = 200
PageOf(i) == responses[i].page
FirstPage == PageOf(1)
FirstAnswered == NumResponses >= 1 /\ Answered(1)
Searching == pc \in {"loop", "cut", "done"}

\* The accumulated numberOfElements over the first i pages.
RECURSIVE Accumulated(_)
Accumulated(i) ==
    IF i = 0 THEN 0 ELSE Accumulated(i - 1) + PageOf(i).numberOfElements

\* The target count of the search: totalElements of the first page when
\* all_texts is set and that page is neither empty nor last, else the
\* requested count.
Target ==
    IF params.all_texts /\ ~FirstPage.empty /\ ~FirstPage.last
        THEN FirstPage.totalElements ELSE params.count

\* The bodies of the first i pages fetched, page after page, item after item.
RECURSIVE BodiesUpTo(_)
BodiesUpTo(i) ==
    IF i = 0 THEN <<>>
    ELSE BodiesUpTo(i - 1)
             \o [k \in 1..Len(PageOf(i).content) |-> PageOf(i).content[k].body]
AllBodies == BodiesUpTo(NumResponses)

Completed == pc = "done" /\ outcome.kind # "APIError"

\* Page i ends the search: it reports last, or the target is reached with it.
StopsAt(i) == PageOf(i).last \/ Accumulated(i) >= Target

\* C2 as stated: the last page fetched is the first one that reports last=true
\* or with which the accumulated numberOfElements reaches the target, and no
\* request follows such a page.
C2_StopsAtLastOrTarget ==
    /\ \A i \in 1..NumResponses : (Answered(i) /\ StopsAt(i)) => NumRequests <= i
    /\ Completed => StopsAt(NumResponses)

\* C2 amended: the last page fetched is the first one that reports last=true,
\* or reaches the target, or is the first page reporting empty=true; no
\* request follows a page with last=true, nor one that reaches the target.
C2_StopsAtLastTargetOrEmpty ==
    /\ \A i \in 1..NumResponses : (Answered(i) /\ StopsAt(i)) => NumRequests <= i
    /\ Completed => (StopsAt(NumResponses) \/ (NumResponses = 1 /\ FirstPage.empty))

\* The loop ran and stopped because the target was reached, not on last=true.
C2_Witness ==
    /\ Completed /\ NumResponses = 3
    /\ ~PageOf(3).last
    /\ Accumulated(2) < Target /\ Accumulated(3) >= Target

\* C3: with return_full_json and all_texts false and count >= 0, a search that
\* returns has at most count items.
C3_AtMostCount ==
    (outcome.kind = "texts" /\ ~params.all_texts /\ params.count >= 0)
        => Len(outcome.texts) <= params.count

\* Two pages were fetched with more bodies than the count, and the result is cut.
C3_Witness ==
    /\ outcome.kind = "texts" /\ ~params.all_texts /\ params.count >= 1
    /\ NumResponses >= 2
    /\ Len(AllBodies) > params.count
    /\ Len(outcome.texts) = params.count

\* C4: a search fails with TextsNotFoundError exactly when the first page
\* reports empty=true; then one request was issued and nothing is returned.
C4_NotFoundIffFirstEmpty ==
    /\ (Searching /\ FirstAnswered /\ FirstPage.empty)
           => (pc = "done" /\ outcome.kind = "TextsNotFoundError")
    /\ outcome.kind = "TextsNotFoundError"
           => /\ FirstAnswered /\ FirstPage.empty
              /\ NumRequests = 1
              /\ outcome.texts = <<>> /\ outcome.pages = <<>>

\* An empty first page that carries content, with all_texts and raw output asked.
C4_Witness ==
    /\ outcome.kind = "TextsNotFoundError"
    /\ params.all_texts /\ params.return_full_json
    /\ FirstPage.numberOfElements > 0 /\ ~FirstPage.last

\* C8: a non-200 answer to any request ends the search with APIError: no
\* request follows, the failed one is not sent again, no page is returned.
C8_UpstreamErrorAborts ==
    \A i \in 1..NumResponses :
        ~Answered(i) =>
            /\ pc = "done" /\ outcome = APIErrorOutcome
            /\ i = NumResponses /\ NumRequests = i

\* The third request fails after two pages were fetched.
C8_Witness ==
    /\ NumResponses = 3 /\ ~Answered(3)
    /\ Len(results) = 2 /\ outcome.kind = "APIError"

\* C9 as stated: the accumulated numberOfElements never exceeds the reported
\* totalElements, and the flattened result has no more items than that.
C9_NeverExceedsTotal ==
    FirstAnswered =>
        /\ \A i \in 1..NumResponses :
               Answered(i) => Accumulated(i) <= FirstPage.totalElements
        /\ outcome.kind = "texts" => Len(outcome.texts) <= FirstPage.totalElements

\* C9 amended: with all_texts and a first page that is neither empty nor last,
\* a further page is requested only while the accumulated numberOfElements is
\* below the first page's totalElements, and the flattened result has no more
\* items than that totalElements; without all_texts a further page is
\* requested only while the accumulation is below count, whatever the
\* totalElements; after a first page that is empty or last none is requested.
C9_BoundedByTotalWhenAll ==
    /\ (FirstAnswered /\ params.all_texts /\ ~FirstPage.empty /\ ~FirstPage.last) =>
           /\ \A k \in 2..NumRequests :
                  Accumulated(k - 1) < FirstPage.totalElements
           /\ outcome.kind = "texts" =>
                  Len(outcome.texts) <= FirstPage.totalElements
    /\ (FirstAnswered /\ ~params.all_texts) =>
           \A k \in 2..NumRequests : Accumulated(k - 1) < params.count
    /\ (FirstAnswered /\ (FirstPage.empty \/ FirstPage.last)) => NumRequests = 1

\* all_texts and a total of 2: one body on the first page, none on the second,
\* two on the third; three bodies arrived and the result is cut to two.
C9_Witness ==
    /\ outcome.kind = "texts" /\ params.all_texts
    /\ NumResponses = 3 /\ ~FirstPage.last
    /\ FirstPage.totalElements = 2
    /\ Accumulated(1) = 1 /\ Accumulated(2) = 1 /\ Accumulated(3) = 3
    /\ Len(AllBodies) > FirstPage.totalElements
    /\ Len(outcome.texts) = FirstPage.totalElements

\* C10 as stated: the texts returned are the first min(target, n) bodies of
\* the pages fetched, in fetch order and content order.
C10_FirstMinTargetN ==
    outcome.kind = "texts" =>
        outcome.texts = SubSeq(AllBodies, 1, Min(Target, Len(AllBodies)))

\* C10 amended: for a target >= 0 the texts are the first min(target, n)
\* bodies; for a negative target they are the first max(0, n + target) bodies.
C10_PrefixOfAllBodies ==
    outcome.kind = "texts" =>
        LET n == Len(AllBodies)
            k == IF Target >= 0 THEN Min(Target, n) ELSE Max(0, n + Target)
        IN outcome.texts = SubSeq(AllBodies, 1, k)

\* Two pages with content, three bodies in all, the result cut to the first two.
C10_Witness ==
    /\ outcome.kind = "texts" /\ NumResponses >= 2
    /\ Len(outcome.texts) = 2 /\ Len(AllBodies) > 2
    /\ outcome.texts[1] # outcome.texts[2]
    /\ PageOf(1).content # <<>> /\ PageOf(2).content # <<>>

\* What the properties read off a run of word lookups.
WordDone == wpc = "done"
NumWordRequests == Len(wrequests)
WordAnswered(i) == Len(wresponses) >= i /\ wresponses[i].status = 200
WordEmpty(i) == WordAnswered(i) /\ wresponses[i].json = <<>>
Supported == wargs.lang \in {"udm", "rus"}
HasTilde(str) == \E k \in 1..Len(str) : str[k] = "~"
\* The response get_word works on: the last one it received.
UsedResponse == wresponses[Len(wresponses)].json
ReturnedNormally(out) == out.kind \in {"strings", "json"}
\* The earlier lookups with the arguments of the current one.
\* The earlier lookups on the client of the current one with its argument
\* values, however they were written.
SameArgsBefore ==
    {h \in history : h.call.self = wcall.self /\ h.args = wargs}

\* The earlier lookups on the same client written as the current one, with no
\* cache_clear since.
SameCallBefore == {h \in history : h.call = wcall /\ ~h.cleared}

\* C1: a lookup with a language other than 'udm' and 'rus' fails with
\* ValueError and has issued no upstream request, whatever word and flags.
C1_UnsupportedLanguageRejected ==
    (wpc # "idle" /\ ~Supported) =>
        /\ WordDone /\ woutcome.kind = "ValueError"
        /\ NumWordRequests = 0 /\ Len(wresponses) = 0

\* An unknown language with every flag set.
C1_Witness ==
    /\ WordDone /\ wargs.lang = "eng" /\ woutcome.kind = "ValueError"
    /\ wargs.replace_tilde /\ wargs.return_full_json
    /\ wargs.lemmatize_if_not_found

\* C5 as stated: a lookup with the argument tuple of an earlier lookup on the
\* same client returns what that one returned and issues no upstream request.
C5_RepeatedLookupCached ==
    (WordDone /\ SameArgsBefore # {}) =>
        /\ NumWordRequests = 0
        /\ \A h \in SameArgsBefore : woutcome = h.outcome

\* C5 amended: a lookup written as an earlier lookup on the same client (the
\* same arguments by position and by keyword) that returned normally, with no
\* cache_clear since and its entry still held (no more than maxsize calls
\* stored, of all clients), returns what that one returned and issues no
\* upstream request.
C5_RepeatedSuccessfulLookupCached ==
    LET ok == {h \in SameCallBefore : ReturnedNormally(h.outcome)}
        stored == {h.call : h \in {g \in history : /\ ReturnedNormally(g.outcome)
                                                   /\ ~g.cleared}}
    IN (WordDone /\ ok # {} /\ Cardinality(stored) <= maxsize) =>
           /\ NumWordRequests = 0
           /\ \A h \in ok : woutcome = h.outcome

\* The second lookup repeats the first, which returned strings: no request.
C5_Witness ==
    /\ WordDone /\ nlookups = 2
    /\ \E h \in SameCallBefore : h.outcome.kind = "strings"
    /\ woutcome.kind = "strings" /\ woutcome.strings # <<>>
    /\ wrequests = <<>>

\* The same argument values on the same client, written differently from an
\* earlier successful lookup: a request is posted and a second entry stored.
C5_MissOnOtherCallForm ==
    /\ WordDone /\ nlookups = 2 /\ Len(cache) = 2
    /\ \E h \in SameArgsBefore :
           /\ h.call # wcall /\ ~h.cleared /\ h.outcome.kind = "strings"
    /\ NumWordRequests = 1 /\ woutcome.kind = "strings"

\* The same call after cache_clear posts its request again.
C5_MissAfterCacheClear ==
    /\ WordDone /\ nlookups = 2
    /\ \E h \in history :
           /\ h.call = wcall /\ h.cleared /\ h.outcome.kind = "strings"
    /\ NumWordRequests = 1 /\ woutcome.kind = "strings"

\* The same call on the other client is not served from the first one's entry.
C5_MissOnOtherClient ==
    /\ WordDone /\ nlookups = 2 /\ Len(cache) = 2
    /\ \E h \in history :
           /\ h.call.self # wcall.self /\ h.call.args = wcall.args
           /\ h.call.kwds = wcall.kwds /\ ~h.cleared
           /\ h.outcome.kind = "strings"
    /\ NumWordRequests = 1 /\ woutcome.kind = "strings"

\* C6 as stated: a lookup with a supported language posts one or two
\* requests; the second exactly when the first response is empty,
\* lemmatize_if_not_found is set and the lemma is not '', and it carries the
\* lemma; it fails with WordNotFoundError exactly when the first response is
\* empty and the fallback is off, the lemma is '' or the second response is
\* empty too.
C6_OneOrTwoRequests ==
    LET fallback == WordEmpty(1) /\ wargs.lemmatize_if_not_found /\ new_word # ""
    IN /\ NumWordRequests <= 2
       /\ (wpc \in {"first", "second"} \/ (WordDone /\ Supported))
              => NumWordRequests >= 1
       /\ (wpc = "second" \/ (WordDone /\ Supported)) =>
              /\ NumWordRequests = 2 <=> fallback
              /\ NumWordRequests = 2 =>
                     /\ wrequests[2].word = new_word
                     /\ wrequests[2].lang = wrequests[1].lang
                     /\ wrequests[1].word = wargs.word
       /\ (WordDone /\ Supported) =>
              (woutcome.kind = "WordNotFoundError" <=>
                  /\ WordEmpty(1)
                  /\ \/ ~wargs.lemmatize_if_not_found
                     \/ new_word = ""
                     \/ WordEmpty(2))

\* The current lookup is written as an earlier one on the same client that
\* returned normally, with no cache_clear since.
RepeatsStoredCall ==
    \E h \in SameCallBefore : ReturnedNormally(h.outcome)

\* No more than maxsize calls were stored since the last cache_clear.
NothingEvicted ==
    Cardinality({h.call : h \in {g \in history : /\ ReturnedNormally(g.outcome)
                                                 /\ ~g.cleared}}) <= maxsize

\* C6 amended: a lookup with a supported language that repeats a stored call
\* posts no request and returns normally; any other posts one or two
\* requests, the second exactly when the first response is empty,
\* lemmatize_if_not_found is set and the lemma is not '', carrying the lemma,
\* and fails with WordNotFoundError exactly when the first response is empty
\* and the fallback is off, the lemma is '' or the second response is empty.
C6_OneOrTwoRequestsUnlessCached ==
    LET fallback == WordEmpty(1) /\ wargs.lemmatize_if_not_found /\ new_word # ""
    IN /\ NumWordRequests <= 2
       /\ (WordDone /\ Supported /\ RepeatsStoredCall /\ NothingEvicted) =>
              /\ NumWordRequests = 0
              /\ ReturnedNormally(woutcome)
       /\ (wpc \in {"first", "second"}
               \/ (WordDone /\ Supported /\ ~RepeatsStoredCall)) =>
              /\ NumWordRequests >= 1
              /\ wrequests[1].word = wargs.word
       /\ (wpc = "second" \/ (WordDone /\ Supported /\ ~RepeatsStoredCall)) =>
              /\ NumWordRequests = 2 <=> fallback
              /\ NumWordRequests = 2 =>
                     /\ wrequests[2].word = new_word
                     /\ wrequests[2].lang = wrequests[1].lang
       /\ (WordDone /\ Supported /\ ~RepeatsStoredCall) =>
              (woutcome.kind = "WordNotFoundError" <=>
                  /\ WordEmpty(1)
                  /\ \/ ~wargs.lemmatize_if_not_found
                     \/ new_word = ""
                     \/ WordEmpty(2))

\* A lookup is repeated after it failed with WordNotFoundError: the request
\* and the fallback request are posted again, both answered with nothing.
C6_Witness ==
    /\ WordDone /\ nlookups = 2
    /\ \E h \in SameCallBefore : h.outcome.kind = "WordNotFoundError"
    /\ NumWordRequests = 2 /\ WordEmpty(2)
    /\ woutcome.kind = "WordNotFoundError" /\ wrequests[2].word = "lem"

\* A lookup that repeats a stored call: no request, the strings returned.
C6_WitnessCached ==
    /\ WordDone /\ Supported /\ RepeatsStoredCall
    /\ NumWordRequests = 0 /\ woutcome.kind = "strings"

\* C7 as stated: with replace_tilde and without return_full_json no returned
\* string contains '~'.
C7_NoTildeReturned ==
    (WordDone /\ woutcome.kind = "strings" /\ wargs.replace_tilde) =>
        \A i \in 1..Len(woutcome.strings) : ~HasTilde(woutcome.strings[i])

\* C7 amended: with replace_tilde and without return_full_json a returned
\* string contains '~' only when the srcWord of its item contains '~' (and
\* the body of that item does).
C7_TildeOnlyFromSrcWord ==
    (WordDone /\ woutcome.kind = "strings" /\ wargs.replace_tilde) =>
        /\ Len(woutcome.strings) = Len(UsedResponse)
        /\ \A i \in 1..Len(woutcome.strings) :
               HasTilde(woutcome.strings[i]) <=>
                   (HasTilde(UsedResponse[i].srcWord) /\ HasTilde(UsedResponse[i].body))

\* Two items with a '~' in the body and a srcWord without one: both replaced.
C7_Witness ==
    /\ WordDone /\ woutcome.kind = "strings" /\ wargs.replace_tilde
    /\ Len(UsedResponse) = 2
    /\ \A i \in 1..2 : /\ HasTilde(UsedResponse[i].body)
                       /\ ~HasTilde(UsedResponse[i].srcWord)
                       /\ ~HasTilde(woutcome.strings[i])

\* C11 as stated: request k carries page = k; the first request carries
\* rows = 0 and request k >= 2 carries the totalElements of the response to
\* request k - 1.
C11_RowsFromPriorResponse ==
    \A k \in 1..NumRequests :
        /\ requests[k].page = k
        /\ k = 1 => requests[k].rows = 0
        /\ k >= 2 => requests[k].rows = PageOf(k - 1).totalElements

\* C11 amended: request k carries page = k; the first request carries
\* rows = 0 and every request k >= 2 carries the totalElements of the first
\* response, whatever the later responses report.
C11_RowsFromFirstResponse ==
    \A k \in 1..NumRequests :
        /\ requests[k].page = k
        /\ k = 1 => requests[k].rows = 0
        /\ k >= 2 => requests[k].rows = FirstPage.totalElements

\* A third request was posted after a second page whose totalElements differs
\* from the first page's.
C11_Witness ==
    /\ NumRequests = 3 /\ NumResponses >= 2
    /\ FirstPage.totalElements = 1 /\ PageOf(2).totalElements = 0
    /\ requests[3].rows = 1 /\ requests[3].page = 3

\* C12: every text search terminates, whatever the upstream answers.  The
\* loop goes on exactly while curr_elements < count and the page is not last,
\* and the upstream is free to repeat an answer, so the loop cannot run for
\* ever exactly when every iteration that goes on to another request has
\* brought curr_elements closer to count.
C12_EveryIterationProgresses ==
    [][(pc = "loop" /\ pc' = "loop")
           => (count' - curr_elements' < count - curr_elements)]_vars

\* The text of the first k tokens of an item's body, each '~' of it standing
\* for the item's own srcWord.
RECURSIVE ExpectedUpTo(_, _)
ExpectedUpTo(item, k) ==
    IF k = 0 THEN <<>>
    ELSE LET t == item.body[k] IN
         ExpectedUpTo(item, k - 1)
             \o (IF t \in Tags THEN <<>>
                 ELSE IF t = "~" THEN item.srcWord ELSE <<t>>)

\* C13: with replace_tilde and without return_full_json the i-th string
\* returned is the plain text of the i-th item's body with every '~' replaced
\* by that item's srcWord, one string per item in response order; the word
\* looked up and the lemma of a fallback play no part.
C13_TildeReplacedByOwnSrcWord ==
    (WordDone /\ woutcome.kind = "strings" /\ wargs.replace_tilde) =>
        /\ Len(woutcome.strings) = Len(UsedResponse)
        /\ \A i \in 1..Len(UsedResponse) :
               woutcome.strings[i] =
                   ExpectedUpTo(UsedResponse[i], Len(UsedResponse[i].body))

\* After a fallback to the lemma: two items with different srcWords, a '~' in
\* both bodies, two different strings returned.
C13_Witness ==
    /\ WordDone /\ woutcome.kind = "strings" /\ wargs.replace_tilde
    /\ NumWordRequests = 2 /\ new_word = "lem"
    /\ Len(UsedResponse) = 2
    /\ UsedResponse[1].srcWord # UsedResponse[2].srcWord
    /\ UsedResponse[1].body = UsedResponse[2].body
    /\ HasTilde(UsedResponse[1].body) /\ Len(UsedResponse[1].body) = 2
    /\ woutcome.strings[1] # woutcome.strings[2]

\* The pages answered so far, in the order of their requests.
PagesFetched == [i \in 1..NumResponses |-> PageOf(i)]

\* The first answer of the dictionary that holds an item.
FirstNonEmpty ==
    wresponses[CHOOSE i \in 1..Len(wresponses) :
                   /\ wresponses[i].json # <<>>
                   /\ \A j \in 1..(i - 1) : wresponses[j].json = <<>>].json

\* C14: with return_full_json a text search that returns normally returns the
\* pages it fetched, in fetch order, unmodified and not truncated by count;
\* a word lookup with return_full_json returns the first non-empty upstream
\* response unmodified, without tilde replacement even with replace_tilde.
C14_FullJsonUnmodified ==
    /\ (pc = "done" /\ params.return_full_json
            /\ outcome.kind \notin {"APIError", "TextsNotFoundError"}) =>
           /\ outcome.kind = "pages"
           /\ outcome.pages = PagesFetched
    /\ (WordDone /\ wargs.return_full_json /\ ReturnedNormally(woutcome)) =>
           /\ woutcome.kind = "json"
           /\ woutcome.json = FirstNonEmpty

\* Three raw pages are returned although count is 2.
C14_Witness ==
    /\ pc = "done" /\ params.return_full_json /\ outcome.kind = "pages"
    /\ params.count = 2 /\ ~params.all_texts
    /\ Len(outcome.pages) = 3
    /\ Len(PageOf(1).content) = 1 /\ Len(PageOf(3).content) = 1

\* The raw answer to the lemma is returned, '~' and tag included, although
\* replace_tilde is set.
C14_WitnessWord ==
    /\ WordDone /\ wargs.return_full_json /\ wargs.replace_tilde
    /\ woutcome.kind = "json" /\ NumWordRequests = 2
    /\ Len(woutcome.json) = 2
    /\ woutcome.json[1].body = <<"<b>", "~">>

\* C15: every request of a search, the first and the later ones alike, has
\* searchMode 1, word null and text the query when full_text_mode is set, and
\* searchMode 0, word the query and text null otherwise; exactly one of word
\* and text is non-null and the mode is the same in all requests of a search.
C15_ModeInEveryRequest ==
    \A k \in 1..NumRequests :
        /\ IF params.full_text_mode
               THEN /\ requests[k].searchMode = 1
                    /\ requests[k].word = None
                    /\ requests[k].text = QueryText
               ELSE /\ requests[k].searchMode = 0
                    /\ requests[k].word = QueryText
                    /\ requests[k].text = None
        /\ (requests[k].word = None) # (requests[k].text = None)
        /\ requests[k].searchMode = requests[1].searchMode

\* A full-text search that posted three requests.
C15_Witness ==
    /\ params.full_text_mode /\ NumRequests = 3
    /\ requests[3].searchMode = 1 /\ requests[3].text = QueryText

\* C17: whatever page and per_page the caller passes, every request of a
\* search carries perPage = 10 and the first request carries page = 1.
C17_PagingOptionsIgnored ==
    \A k \in 1..NumRequests :
        /\ requests[k].perPage = 10
        /\ k = 1 => requests[k].page = 1

\* The caller asked for page 3 with 50 per page and three requests were posted.
C17_Witness ==
    /\ params.page = 3 /\ params.per_page = 50
    /\ NumRequests = 3
    /\ requests[1].page = 1 /\ requests[3].perPage = 10

\* The bodies of the first page, in content order.
FirstBodies == BodiesUpTo(1)

\* With all_texts and a first page neither empty nor last: page k >= 2 is
\* requested only while the accumulated numberOfElements is below the first
\* page's totalElements, a search that returns stopped on last=true or on
\* reaching it, and the texts are cut to it; the requested count plays no part.
TotalIsTargetAndBound ==
    (FirstAnswered /\ params.all_texts /\ ~FirstPage.empty /\ ~FirstPage.last) =>
        /\ \A k \in 2..NumRequests : Accumulated(k - 1) < FirstPage.totalElements
        /\ Completed =>
               \/ PageOf(NumResponses).last
               \/ Accumulated(NumResponses) >= FirstPage.totalElements
        /\ outcome.kind = "texts" =>
               outcome.texts =
                   SubSeq(AllBodies, 1,
                          Min(FirstPage.totalElements, Len(AllBodies)))

\* C16 as stated: when the first page reports last=true, one request is
\* issued and the texts are the first min(count, n) bodies of that page, with
\* all_texts as without; when it is neither last nor empty and all_texts is
\* set, the first page's totalElements is the target and the bound.
C16_LastPageFirstMinCount ==
    /\ (FirstAnswered /\ FirstPage.last) =>
           /\ NumRequests = 1
           /\ outcome.kind = "texts" =>
                  outcome.texts =
                      SubSeq(FirstBodies, 1,
                             Min(params.count, Len(FirstBodies)))
    /\ TotalIsTargetAndBound

\* C16 amended: as stated for count >= 0; for a negative count the texts of a
\* last first page are its first max(0, n + count) bodies.
C16_LastPageCutByCount ==
    /\ (FirstAnswered /\ FirstPage.last) =>
           /\ NumRequests = 1
           /\ outcome.kind = "texts" =>
                  LET n == Len(FirstBodies)
                      k == IF params.count >= 0 THEN Min(params.count, n)
                                                ELSE Max(0, n + params.count)
                  IN outcome.texts = SubSeq(FirstBodies, 1, k)
    /\ TotalIsTargetAndBound

\* all_texts with a first page that is last and reports totalElements = 0:
\* one request, and the two bodies of the page are cut to count = 1.
C16_Witness ==
    /\ outcome.kind = "texts" /\ params.all_texts /\ params.count = 1
    /\ NumRequests = 1 /\ FirstPage.last
    /\ FirstPage.totalElements = 0
    /\ Len(FirstBodies) = 2 /\ Len(outcome.texts) = 1

\* all_texts with a first page that is not last: the search went on to a
\* third page although count is 0, and the texts are cut to totalElements.
C16_WitnessNotLast ==
    /\ outcome.kind = "texts" /\ params.all_texts /\ params.count = 0
    /\ ~FirstPage.last /\ FirstPage.totalElements = 1
    /\ NumResponses = 3 /\ Len(AllBodies) = 2 /\ Len(outcome.texts) = 1

=============================================================================
